---- MODULE Spec2Model ----
(***************************************************************************)
(* Model of src/util/codec/mysql/json/functions.rs: path extraction        *)
(* (Json::extract, extract_json) and string unquoting (Json::unquote,      *)
(* unquote_string, decode_escaped_unicode).                                *)
(*                                                                         *)
(* A Json value is a record with a "type" tag and a payload "v":           *)
(*   None, Boolean, I64, Double, String (a sequence of code points),       *)
(*   Array (a sequence of values), Object (the BTreeMap's entries, a       *)
(*   sequence of [key, value] in strictly ascending key order).            *)
(* A string is the sequence of its Unicode scalar values.                  *)
(***************************************************************************)
EXTENDS Integers, Sequences, FiniteSets, TLC

VARIABLES
    pc,             \* which call is running and where it stands
    j,              \* the document (self of Json::extract / Json::unquote)
    path_expr_list, \* the legs of each path expression given to extract
    elem_list,      \* extract's accumulator
    extracted,      \* extract's Option<Json> return value
    stack,          \* the frames of the nested extract_json calls
    chars,          \* unquote_string's iterator: the characters not yet read
    ret,            \* unquote_string's output buffer
    unquoted        \* unquote's Result<String>

vars == <<pc, j, path_expr_list, elem_list, extracted, stack, chars, ret,
          unquoted>>

----------------------------------------------------------------------------
(* Bounds of the explored inputs *)

MaxNodes == 3        \* nodes of a document tree
MaxLegs == 2         \* legs of a path expression
MaxExprs == 2        \* path expressions of one extract call
MaxFewNodes == 2     \* nodes of a document queried with several expressions
MaxStackNodes == 2   \* nodes of a document whose call stack is traced
MaxTail == 5         \* characters that follow the \u of an explored string
MaxEscLen == 4       \* characters of an explored string of escape letters

----------------------------------------------------------------------------
(* Strings and the Json value model *)

Str1(c) == <<c>>

KeyA == Str1(97)     \* "a"
KeyB == Str1(98)     \* "b"

RECURSIVE StrLess(_, _)
\* Ord for String (BTreeMap's key order): lexicographic on the scalar values
StrLess(a, b) ==
    IF b = <<>> THEN FALSE
    ELSE IF a = <<>> THEN TRUE
    ELSE IF Head(a) # Head(b) THEN Head(a) < Head(b)
    ELSE StrLess(Tail(a), Tail(b))

JsonNone == [type |-> "None"]
JsonBoolean(b) == [type |-> "Boolean", v |-> b]
JsonI64(n) == [type |-> "I64", v |-> n]
JsonDouble(d) == [type |-> "Double", v |-> d]
JsonString(str) == [type |-> "String", v |-> str]
JsonArray(array) == [type |-> "Array", v |-> array]
JsonObject(map) == [type |-> "Object", v |-> map]

\* PathLeg
Index(i) == [leg |-> "Index", i |-> i]
Key(key) == [leg |-> "Key", key |-> key]
DoubleAsterisk == [leg |-> "DoubleAsterisk"]

PATH_EXPR_ASTERISK == Str1(42)          \* "*"
PATH_EXPR_ARRAY_INDEX_ASTERISK == -1

\* map.keys() and map.contains_key(key), map[key] of a BTreeMap
MapKeys(map) == [k \in 1..Len(map) |-> map[k].key]
MapContainsKey(map, key) == \E k \in 1..Len(map) : map[k].key = key
MapGet(map, key) == map[CHOOSE k \in 1..Len(map) : map[k].key = key].value

\* `i as usize` for an i32: a negative i wraps to 2^64 + i
AsUsize(i) == [wrapped |-> i < 0, n |-> i]
\* `u < len` for a usize u and a Vec length (at most isize::MAX < 2^64 - 2^31)
UsizeLess(u, len) == ~u.wrapped /\ u.n < len
UsizeIsZero(u) == ~u.wrapped /\ u.n = 0

----------------------------------------------------------------------------
(* extract_json *)

\* IsIndexAsterisk taking every negative index for the sentinel
IsIndexNegative(i) == i < 0

\* line 122, 131: i == PATH_EXPR_ARRAY_INDEX_ASTERISK
IsIndexAsterisk(i) == i = PATH_EXPR_ARRAY_INDEX_ASTERISK

\* line 126: (i as usize) < array.len()
IndexInRange(i, array) == UsizeLess(AsUsize(i), Len(array))

\* AutowrapIndex without the sentinel: only index 0 selects the node
AutowrapIndexZeroOnly(i) == UsizeIsZero(AsUsize(i))

\* AutowrapIndex without any test of the index
AutowrapAnyIndex(i) == TRUE

\* line 131: a node that is no array is taken as a one-element array
AutowrapIndex(i) == IsIndexAsterisk(i) \/ UsizeIsZero(AsUsize(i))

\* MapValues in descending key order
MapValuesReversed(map) ==
    [k \in 1..Len(map) |-> MapGet(map, MapKeys(map)[Len(map) + 1 - k])]

\* line 140-141: for key in map.keys() { ... &map[key] ... }
MapValues(map) == [k \in 1..Len(map) |-> MapGet(map, MapKeys(map)[k])]

\* DoubleAsteriskChildLegs handing the children sub_path_legs: one level only
DoubleAsteriskRestOnly(path_legs) == Tail(path_legs)

\* line 153, 158: the legs a DoubleAsterisk leg hands to each child
DoubleAsteriskChildLegs(path_legs) == path_legs

\* SubPathLegs that consumes no leg: &path_legs[0..]
SubPathLegsWhole(path_legs) == path_legs

\* line 116: sub_path_legs = &path_legs[1..]
SubPathLegs(path_legs) == Tail(path_legs)

Call(node, legs) == [j |-> node, path_legs |-> legs]
CallEach(children, legs) == [k \in 1..Len(children) |-> Call(children[k], legs)]

\* The nested extract_json calls that extract_json(j, path_legs) makes, in the
\* order it appends their results to ret (path_legs is not empty).
RecursiveCalls(node, path_legs) ==
    LET current_leg == Head(path_legs)
        sub_path_legs == SubPathLegs(path_legs)
    IN  CASE current_leg.leg = "Index" ->
               IF node.type = "Array"
               THEN IF IsIndexAsterisk(current_leg.i)
                    THEN CallEach(node.v, sub_path_legs)
                    ELSE IF IndexInRange(current_leg.i, node.v)
                    THEN <<Call(node.v[current_leg.i + 1], sub_path_legs)>>
                    ELSE <<>>
               ELSE IF AutowrapIndex(current_leg.i)
                    THEN <<Call(node, sub_path_legs)>>
                    ELSE <<>>
          [] current_leg.leg = "Key" ->
               IF node.type = "Object"
               THEN IF current_leg.key = PATH_EXPR_ASTERISK
                    THEN CallEach(MapValues(node.v), sub_path_legs)
                    ELSE IF MapContainsKey(node.v, current_leg.key)
                    THEN <<Call(MapGet(node.v, current_leg.key), sub_path_legs)>>
                    ELSE <<>>
               ELSE <<>>
          [] current_leg.leg = "DoubleAsterisk" ->
               <<Call(node, sub_path_legs)>> \o
               (CASE node.type = "Array" ->
                       CallEach(node.v, DoubleAsteriskChildLegs(path_legs))
                  [] node.type = "Object" ->
                       CallEach(MapValues(node.v), DoubleAsteriskChildLegs(path_legs))
                  [] OTHER -> <<>>)

RECURSIVE extract_json(_, _), AppendAll(_)
extract_json(node, path_legs) ==
    IF path_legs = <<>>
    THEN <<node>>
    ELSE AppendAll(RecursiveCalls(node, path_legs))

\* ret.append(&mut extract_json(..)) for each nested call in turn
AppendAll(calls) ==
    IF calls = <<>>
    THEN <<>>
    ELSE extract_json(Head(calls).j, Head(calls).path_legs) \o AppendAll(Tail(calls))

----------------------------------------------------------------------------
(* Inputs of extract *)

Scalars ==
    {JsonNone, JsonBoolean(TRUE), JsonI64(21), JsonDouble("6.18"),
     JsonString(<<97, 49>>)}

\* the scalars found inside the arrays and objects of the documents
Leaves == {JsonBoolean(TRUE), JsonI64(2017)}

DocKeys == {KeyA, KeyB}

\* the key sequences a BTreeMap of m entries can hold: strictly ascending
AscendingKeys(m) ==
    {ks \in [1..m -> DocKeys] : \A k \in 1..(m - 1) : StrLess(ks[k], ks[k + 1])}

RECURSIVE JsonOfSize(_), SeqsOfSize(_)
\* the arrays, objects and leaves of exactly n nodes
JsonOfSize(n) ==
    IF n = 1
    THEN Leaves \cup {JsonArray(<<>>), JsonObject(<<>>)}
    ELSE LET children == SeqsOfSize(n - 1)
         IN  {JsonArray(c) : c \in children} \cup
             UNION {{JsonObject([k \in 1..Len(c) |-> [key |-> ks[k], value |-> c[k]]]) :
                        ks \in AscendingKeys(Len(c))} : c \in children}

\* the sequences of values that have n nodes in all
SeqsOfSize(n) ==
    IF n = 0
    THEN {<<>>}
    ELSE UNION {{<<v>> \o rest : v \in JsonOfSize(k), rest \in SeqsOfSize(n - k)} :
                   k \in 1..n}

DocumentsOfSize(n) == Scalars \cup UNION {JsonOfSize(k) : k \in 1..n}

Documents == DocumentsOfSize(MaxNodes)

IndexValues == {-2, PATH_EXPR_ARRAY_INDEX_ASTERISK, 0, 1}
LegKeys == {KeyA, PATH_EXPR_ASTERISK}

PathLegs ==
    {Index(i) : i \in IndexValues} \cup {Key(k) : k \in LegKeys} \cup {DoubleAsterisk}

LegSeqs(n) == UNION {[1..m -> PathLegs] : m \in 0..n}

\* no expression, or one expression of up to MaxLegs legs
OneExpr == {<<>>} \cup {<<legs>> : legs \in LegSeqs(MaxLegs)}

\* two to MaxExprs expressions of at most one leg each
ManyExprs == UNION {[1..m -> LegSeqs(1)] : m \in 2..MaxExprs}

----------------------------------------------------------------------------
(* Json::extract *)

None == [some |-> FALSE]
Some(value) == [some |-> TRUE, value |-> value]

RECURSIVE ExtractAll(_, _)
\* line 36-39: for path_expr in path_expr_list { elem_list.append(..) }
ExtractAll(doc, exprs) ==
    IF exprs = <<>>
    THEN <<>>
    ELSE extract_json(doc, Head(exprs)) \o ExtractAll(doc, Tail(exprs))

\* ReturnsUnwrapped without the test of the number of expressions
ReturnsUnwrappedAnyExprs(exprs, elems) == Len(elems) = 1

\* line 43: path_expr_list.len() == 1 && elem_list.len() == 1
ReturnsUnwrapped(exprs, elems) == Len(exprs) = 1 /\ Len(elems) = 1

InitExtract ==
    /\ pc = "extract"
    /\ \/ j \in Documents /\ path_expr_list \in OneExpr
       \/ j \in DocumentsOfSize(MaxFewNodes) /\ path_expr_list \in ManyExprs
    /\ elem_list = <<>>
    /\ extracted = None
    /\ stack = <<>>
    /\ chars = <<>>
    /\ ret = <<>>
    /\ unquoted = None

\* line 40-42
ExtractReturnNone ==
    /\ pc = "extract"
    /\ LET elems == ExtractAll(j, path_expr_list)
       IN  /\ elems = <<>>
           /\ elem_list' = elems
           /\ extracted' = None
    /\ pc' = "extracted"
    /\ UNCHANGED <<j, path_expr_list, stack, chars, ret, unquoted>>

\* line 43-47
ExtractReturnElement ==
    /\ pc = "extract"
    /\ LET elems == ExtractAll(j, path_expr_list)
       IN  /\ elems # <<>>
           /\ ReturnsUnwrapped(path_expr_list, elems)
           /\ elem_list' = elems
           /\ extracted' = Some(elems[1])
    /\ pc' = "extracted"
    /\ UNCHANGED <<j, path_expr_list, stack, chars, ret, unquoted>>

\* line 48
ExtractReturnArray ==
    /\ pc = "extract"
    /\ LET elems == ExtractAll(j, path_expr_list)
       IN  /\ elems # <<>>
           /\ ~ReturnsUnwrapped(path_expr_list, elems)
           /\ elem_list' = elems
           /\ extracted' = Some(JsonArray(elems))
    /\ pc' = "extracted"
    /\ UNCHANGED <<j, path_expr_list, stack, chars, ret, unquoted>>

NextExtract == ExtractReturnNone \/ ExtractReturnElement \/ ExtractReturnArray

Spec == InitExtract /\ [][NextExtract]_vars

----------------------------------------------------------------------------
(* The call stack of extract_json: one frame per active call, the outermost  *)
(* first. A frame holds the call's arguments and the number of nested calls  *)
(* it has made so far.                                                       *)

Frame(node, legs) == [j |-> node, path_legs |-> legs, made |-> 0]

Top == stack[Len(stack)]

\* the frames below the top one, and the state of the run once the top returns
Pop ==
    /\ stack' = SubSeq(stack, 1, Len(stack) - 1)
    /\ pc' = IF Len(stack) = 1 THEN "returned" ELSE "extract_json"

InitStack ==
    /\ pc = "extract_json"
    /\ j \in DocumentsOfSize(MaxStackNodes)
    /\ path_expr_list \in {<<legs>> : legs \in LegSeqs(MaxLegs)}
    /\ elem_list = <<>>
    /\ extracted = None
    /\ stack = <<Frame(j, path_expr_list[1])>>
    /\ chars = <<>>
    /\ ret = <<>>
    /\ unquoted = None

\* line 113-115: no leg is left, the call returns vec![j.clone()]
ReturnNode ==
    /\ pc = "extract_json"
    /\ Top.path_legs = <<>>
    /\ Pop
    /\ UNCHANGED <<j, path_expr_list, elem_list, extracted, chars, ret,
                   unquoted>>

\* line 124, 127, 132, 141, 144, 149, 153, 158: the next nested call
CallNested ==
    /\ pc = "extract_json"
    /\ Top.path_legs # <<>>
    /\ LET calls == RecursiveCalls(Top.j, Top.path_legs)
       IN  /\ Top.made < Len(calls)
           /\ stack' =
                 Append([stack EXCEPT ![Len(stack)].made = @ + 1],
                        Frame(calls[Top.made + 1].j, calls[Top.made + 1].path_legs))
    /\ UNCHANGED <<pc, j, path_expr_list, elem_list, extracted, chars, ret,
                   unquoted>>

\* line 165: every nested call of the leg has returned, the call returns ret
ReturnRet ==
    /\ pc = "extract_json"
    /\ Top.path_legs # <<>>
    /\ Top.made = Len(RecursiveCalls(Top.j, Top.path_legs))
    /\ Pop
    /\ UNCHANGED <<j, path_expr_list, elem_list, extracted, chars, ret,
                   unquoted>>

NextStack == ReturnNode \/ CallNested \/ ReturnRet

\* a call that can take a step takes it: the program runs until it returns
SpecStack == InitStack /\ [][NextStack]_vars /\ WF_vars(NextStack)

----------------------------------------------------------------------------
(* unquote_string. A char is its Unicode scalar value.                      *)

ESCAPED_UNICODE_BYTES_SIZE == 4

CHAR_BACKSPACE == 8
CHAR_HORIZONTAL_TAB == 9
CHAR_LINEFEED == 10
CHAR_FORMFEED == 12
CHAR_CARRIAGE_RETURN == 13

Backslash == 92      \* '\\'
Quote == 34          \* '"'
Plus == 43           \* '+'
LetterA == 97
LetterB == 98
LetterF == 102
LetterN == 110
LetterR == 114
LetterT == 116
LetterU == 117

Ok(value) == [ok |-> TRUE, v |-> value]
Err(message) == [ok |-> FALSE, err |-> message]

\* char::len_utf8
Utf8Len(c) ==
    IF c < 128 THEN 1 ELSE IF c < 2048 THEN 2 ELSE IF c < 65536 THEN 3 ELSE 4

RECURSIVE ByteLen(_)
\* str::as_bytes().len()
ByteLen(str) == IF str = <<>> THEN 0 ELSE Utf8Len(Head(str)) + ByteLen(Tail(str))

RECURSIVE CharsWithin(_, _)
\* the leading characters of str that lie wholly within its first n bytes
CharsWithin(str, n) ==
    IF str = <<>> \/ Utf8Len(Head(str)) > n
    THEN <<>>
    ELSE <<Head(str)>> \o CharsWithin(Tail(str), n - Utf8Len(Head(str)))

\* line 84: str::from_utf8(&b[0..n]) of the bytes of a str of n bytes or more:
\* an error when byte n falls inside a character
FromUtf8Prefix(str, n) ==
    LET prefix == CharsWithin(str, n)
    IN  IF ByteLen(prefix) = n THEN Ok(prefix) ELSE Err("Utf8Error")

\* char::to_digit(16)
IsHexDigit(c) == c \in (48..57) \cup (65..70) \cup (97..102)
HexDigit(c) == IF c <= 57 THEN c - 48 ELSE IF c <= 70 THEN c - 55 ELSE c - 87

RECURSIVE HexValue(_, _)
HexValue(digits, acc) ==
    IF digits = <<>> THEN acc ELSE HexValue(Tail(digits), acc * 16 + HexDigit(Head(digits)))

\* line 107: u32::from_str_radix(s, 16): an optional '+' sign, then one or
\* more digits (four digits at most here: no overflow)
FromStrRadix16(str) ==
    LET digits == IF str # <<>> /\ Head(str) = Plus THEN Tail(str) ELSE str
    IN  IF digits = <<>> \/ \E k \in 1..Len(digits) : ~IsHexDigit(digits[k])
        THEN Err("ParseIntError")
        ELSE Ok(HexValue(digits, 0))

\* line 108: char::from_u32: no surrogate, nothing above U+10FFFF
CharFromU32(u) ==
    IF (55296 <= u /\ u <= 57343) \/ u > 1114111
    THEN Err("invalid char from")
    ELSE Ok(u)

\* line 106-109
decode_escaped_unicode(str) ==
    LET u == FromStrRadix16(str)
    IN  IF u.ok THEN CharFromU32(u.v) ELSE u

\* line 80-88: the character a \u escape stands for, `rest` being the
\* characters after the 'u' (chars.as_str())
UnicodeEscape(rest) ==
    IF ByteLen(rest) < ESCAPED_UNICODE_BYTES_SIZE
    THEN Err("Invalid unicode, byte len too short")
    ELSE LET unicode == FromUtf8Prefix(rest, ESCAPED_UNICODE_BYTES_SIZE)
         IN  IF ~unicode.ok THEN unicode
             ELSE IF ByteLen(unicode.v) # ESCAPED_UNICODE_BYTES_SIZE
             THEN Err("Invalid unicode, char len too short")
             ELSE decode_escaped_unicode(unicode.v)

RECURSIVE Advance(_, _)
\* line 90-92: n times chars.next()
Advance(str, n) ==
    IF n = 0 \/ str = <<>> THEN str ELSE Advance(Tail(str), n - 1)

\* Escaped with the form feed of \f mistaken for a line feed
EscapedFormfeedAsLinefeed(c) ==
    CASE c = Quote -> Quote
      [] c = LetterB -> CHAR_BACKSPACE
      [] c = LetterF -> CHAR_LINEFEED
      [] c = LetterN -> CHAR_LINEFEED
      [] c = LetterR -> CHAR_CARRIAGE_RETURN
      [] c = LetterT -> CHAR_HORIZONTAL_TAB
      [] c = Backslash -> Backslash
      [] OTHER -> c

\* line 72-78, 94-97: the character pushed for an escape letter other than 'u'
Escaped(c) ==
    CASE c = Quote -> Quote
      [] c = LetterB -> CHAR_BACKSPACE
      [] c = LetterF -> CHAR_FORMFEED
      [] c = LetterN -> CHAR_LINEFEED
      [] c = LetterR -> CHAR_CARRIAGE_RETURN
      [] c = LetterT -> CHAR_HORIZONTAL_TAB
      [] c = Backslash -> Backslash
      [] OTHER -> c

----------------------------------------------------------------------------
(* Json::unquote *)

Chars(alphabet, n) == UNION {[1..m -> alphabet] : m \in 0..n}

\* the characters after a \u: the hex digits 'b' and 'd' (U+BBBB is a char,
\* U+DBBB a surrogate), a sign, U+00E9 (two bytes in UTF-8), and the letters
\* of further escapes
UnicodeAlphabet == {Backslash, LetterU, LetterB, 100, Plus, 233}

\* a \u escape, after nothing or one plain character, followed by up to
\* MaxTail characters
UnicodeInputs ==
    {pre \o <<Backslash, LetterU>> \o tail :
        pre \in {<<>>, <<LetterA>>}, tail \in Chars(UnicodeAlphabet, MaxTail)}

\* up to MaxEscLen characters among the backslash and the escape letters
EscapeInputs ==
    Chars({Backslash, Quote, LetterB, LetterF, LetterN, LetterR, LetterT, LetterU,
           LetterA}, MaxEscLen)

NonStrings ==
    {JsonObject(<<>>), JsonArray(<<>>), JsonI64(2017), JsonDouble("19.28"),
     JsonBoolean(TRUE), JsonNone}

\* Json::to_string of the values of NonStrings
JsonToString(value) ==
    CASE value.type = "Object" -> <<123, 125>>
      [] value.type = "Array" -> <<91, 93>>
      [] value.type = "I64" -> <<50, 48, 49, 55>>
      [] value.type = "Double" -> <<49, 57, 46, 50, 56>>
      [] value.type = "Boolean" -> <<116, 114, 117, 101>>
      [] value.type = "None" -> <<110, 117, 108, 108>>

InitUnquote ==
    /\ pc = "unquote"
    /\ j \in NonStrings \cup {JsonString(str) : str \in UnicodeInputs \cup EscapeInputs}
    /\ path_expr_list = <<>>
    /\ elem_list = <<>>
    /\ extracted = None
    /\ stack = <<>>
    /\ chars = <<>>
    /\ ret = <<>>
    /\ unquoted = None

Extracting == <<j, path_expr_list, elem_list, extracted, stack>>

\* line 53, 63-64: a string is scanned from its first character
UnquoteString ==
    /\ pc = "unquote" /\ j.type = "String"
    /\ chars' = j.v
    /\ ret' = <<>>
    /\ pc' = "scan"
    /\ UNCHANGED <<Extracting, unquoted>>

\* line 54: any other value is rendered by to_string
UnquoteOther ==
    /\ pc = "unquote" /\ j.type # "String"
    /\ unquoted' = Ok(JsonToString(j))
    /\ pc' = "unquoted"
    /\ UNCHANGED <<Extracting, chars, ret>>

\* line 65, 103: the iterator is exhausted
ScanEnd ==
    /\ pc = "scan" /\ chars = <<>>
    /\ unquoted' = Ok(ret)
    /\ pc' = "unquoted"
    /\ UNCHANGED <<Extracting, chars, ret>>

\* line 99-101
CopyChar ==
    /\ pc = "scan" /\ chars # <<>> /\ Head(chars) # Backslash
    /\ ret' = Append(ret, Head(chars))
    /\ chars' = Tail(chars)
    /\ UNCHANGED <<Extracting, pc, unquoted>>

\* line 67-70
IncompleteEscape ==
    /\ pc = "scan" /\ chars = <<Backslash>>
    /\ unquoted' = Err("Incomplete escaped sequence")
    /\ chars' = <<>>
    /\ pc' = "unquoted"
    /\ UNCHANGED <<Extracting, ret>>

\* line 72-78, 94-97
EscapeLetter ==
    /\ pc = "scan" /\ Len(chars) >= 2 /\ chars[1] = Backslash /\ chars[2] # LetterU
    /\ ret' = Append(ret, Escaped(chars[2]))
    /\ chars' = Tail(Tail(chars))
    /\ UNCHANGED <<Extracting, pc, unquoted>>

\* line 79-93, the escape decodes
EscapeUnicode ==
    /\ pc = "scan" /\ Len(chars) >= 2 /\ chars[1] = Backslash /\ chars[2] = LetterU
    /\ LET utf8 == UnicodeEscape(Tail(Tail(chars)))
       IN  /\ utf8.ok
           /\ ret' = Append(ret, utf8.v)
    /\ chars' = Advance(Tail(Tail(chars)), ESCAPED_UNICODE_BYTES_SIZE)
    /\ UNCHANGED <<Extracting, pc, unquoted>>

\* line 81-83, 84, 88: the escape does not decode
InvalidUnicode ==
    /\ pc = "scan" /\ Len(chars) >= 2 /\ chars[1] = Backslash /\ chars[2] = LetterU
    /\ LET utf8 == UnicodeEscape(Tail(Tail(chars)))
       IN  /\ ~utf8.ok
           /\ unquoted' = utf8
    /\ chars' = Tail(Tail(chars))
    /\ pc' = "unquoted"
    /\ UNCHANGED <<Extracting, ret>>

NextUnquote ==
    \/ UnquoteString
    \/ UnquoteOther
    \/ ScanEnd
    \/ CopyChar
    \/ IncompleteEscape
    \/ EscapeLetter
    \/ EscapeUnicode
    \/ InvalidUnicode

SpecUnquote == InitUnquote /\ [][NextUnquote]_vars

----------------------------------------------------------------------------
(* Vocabulary of the properties of extract *)

RECURSIVE Concat(_)
Concat(seqs) == IF seqs = <<>> THEN <<>> ELSE Head(seqs) \o Concat(Tail(seqs))

\* the children of a node: array elements in index order, object values in
\* the order of the entries (ascending keys); a scalar has none
Children(node) ==
    CASE node.type = "Array" -> node.v
      [] node.type = "Object" -> [k \in 1..Len(node.v) |-> node.v[k].value]
      [] OTHER -> <<>>

RECURSIVE PreOrder(_)
\* the nodes of the subtree of node, depth first, node itself first
PreOrder(node) ==
    <<node>> \o Concat([k \in 1..Len(Children(node)) |-> PreOrder(Children(node)[k])])

\* extract_json(n, legs) for each node n of nodes in turn, concatenated
ExtractEach(nodes, legs) ==
    Concat([k \in 1..Len(nodes) |-> extract_json(nodes[k], legs)])

IsAsterisk(leg) ==
    \/ leg = DoubleAsterisk
    \/ leg.leg = "Index" /\ leg.i = PATH_EXPR_ARRAY_INDEX_ASTERISK
    \/ leg.leg = "Key" /\ leg.key = PATH_EXPR_ASTERISK

ContainsAsterisk(legs) == \E k \in 1..Len(legs) : IsAsterisk(legs[k])

\* extract has returned from a call with the single expression `legs`
Extracted1 == pc = "extracted" /\ Len(path_expr_list) = 1
Legs1 == path_expr_list[1]

KeysAscend(map) == \A k \in 1..(Len(map) - 1) : StrLess(map[k].key, map[k + 1].key)

----------------------------------------------------------------------------
(* Properties of extract *)

\* C1: extract concatenates extract_json(document, expr.legs) in the order of
\* the expressions; it returns None when that sequence is empty, the single
\* element itself when one expression was given and one element matched, and
\* otherwise the array of the whole sequence (so several expressions with one
\* match in all return a one-element array).
C1_ExtractShape ==
    pc = "extracted" =>
        /\ elem_list =
              Concat([k \in 1..Len(path_expr_list) |->
                         extract_json(j, path_expr_list[k])])
        /\ extracted =
              IF elem_list = <<>> THEN None
              ELSE IF Len(path_expr_list) = 1 /\ Len(elem_list) = 1
                   THEN Some(elem_list[1])
                   ELSE Some(JsonArray(elem_list))

C1_Witness ==
    /\ pc = "extracted"
    /\ Len(path_expr_list) >= 2
    /\ Len(elem_list) = 1
    /\ extracted = Some(JsonArray(elem_list))

\* C2: extract_json(node, [DoubleAsterisk] ++ rest) is the concatenation of
\* extract_json(d, rest) over the nodes d of the subtree of node in pre-order
\* (node first, then its children in order, recursively), duplicates kept.
C2_DoubleAsteriskPreOrder ==
    (Extracted1 /\ Legs1 # <<>> /\ Head(Legs1) = DoubleAsterisk) =>
        elem_list = ExtractEach(PreOrder(j), Tail(Legs1))

C2_Witness ==
    /\ Extracted1 /\ Len(Legs1) >= 2 /\ Head(Legs1) = DoubleAsterisk
    /\ Len(PreOrder(j)) >= 3
    /\ \E k \in 1..Len(Children(j)) : Children(Children(j)[k]) # <<>>
    /\ Len(elem_list) >= 2
    /\ elem_list[1] # elem_list[2]

RECURSIVE StripAutowrap(_)
\* legs without its leading Index(0) and Index(wildcard) legs
StripAutowrap(legs) ==
    IF legs # <<>> /\ Head(legs) \in {Index(0), Index(PATH_EXPR_ARRAY_INDEX_ASTERISK)}
    THEN StripAutowrap(Tail(legs))
    ELSE legs

\* C5: on a node that is no array, extract_json(node, [Index(i)] ++ rest) is
\* extract_json(node, rest) when i is the wildcard sentinel or 0 and empty for
\* every other i; so leading Index(0) and Index(wildcard) legs leave the
\* result of the remaining legs unchanged.
C5_AutowrapNonArray ==
    (Extracted1 /\ j.type # "Array") =>
        /\ (Legs1 # <<>> /\ Head(Legs1).leg = "Index") =>
              elem_list =
                  IF Head(Legs1).i = PATH_EXPR_ARRAY_INDEX_ASTERISK \/ Head(Legs1).i = 0
                  THEN extract_json(j, Tail(Legs1))
                  ELSE <<>>
        /\ elem_list = extract_json(j, StripAutowrap(Legs1))

C5_Witness ==
    /\ Extracted1 /\ Len(Legs1) >= 2
    /\ Head(Legs1) = Index(PATH_EXPR_ARRAY_INDEX_ASTERISK)
    /\ j.type = "Object"
    /\ elem_list # <<>> /\ elem_list # <<j>>

\* C6 as stated: extract_json(object, [Key(wildcard)] ++ rest) has exactly as
\* many elements as the object has entries.
C6_OneResultPerEntry ==
    (Extracted1 /\ Legs1 # <<>> /\ Head(Legs1) = Key(PATH_EXPR_ASTERISK)
        /\ j.type = "Object") =>
        Len(elem_list) = Len(j.v)

\* C6 amended: extract_json(object, [Key(wildcard)] ++ rest) is the
\* concatenation, over the entries in ascending key order, of
\* extract_json(value, rest); with no further leg it is exactly the values of
\* the entries in ascending key order, one per entry.
C6_WildcardKeyInKeyOrder ==
    (Extracted1 /\ Legs1 # <<>> /\ Head(Legs1) = Key(PATH_EXPR_ASTERISK)
        /\ j.type = "Object") =>
        /\ KeysAscend(j.v)
        /\ elem_list =
              ExtractEach([k \in 1..Len(j.v) |-> j.v[k].value], Tail(Legs1))
        /\ Tail(Legs1) = <<>> =>
              /\ Len(elem_list) = Len(j.v)
              /\ \A k \in 1..Len(j.v) : elem_list[k] = j.v[k].value

C6_Witness ==
    /\ Extracted1 /\ Legs1 = <<Key(PATH_EXPR_ASTERISK)>>
    /\ j.type = "Object" /\ Len(j.v) = 2
    /\ Len(elem_list) = 2 /\ elem_list[1] # elem_list[2]

\* C7: extraction has no error channel: a Key leg on a node that is no
\* object, a Key leg naming an absent key, a non-sentinel Index leg outside
\* 0 <= i < length on an array (negative values included) and a non-zero
\* non-sentinel Index leg on a node that is no array each yield the empty
\* sequence, and extract returns None when every expression yields nothing;
\* the document is left unchanged.
C7_NoMatchIsEmpty ==
    /\ [][j' = j /\ path_expr_list' = path_expr_list]_vars
    /\ [](pc = "extracted" =>
            /\ (\A k \in 1..Len(path_expr_list) : extract_json(j, path_expr_list[k]) = <<>>)
                  => extracted = None
            /\ (Len(path_expr_list) = 1 /\ Legs1 # <<>>) =>
                  LET leg == Head(Legs1)
                      mismatch ==
                          \/ leg.leg = "Key" /\ j.type # "Object"
                          \/ /\ leg.leg = "Key" /\ j.type = "Object"
                             /\ leg.key # PATH_EXPR_ASTERISK
                             /\ \A k \in 1..Len(j.v) : j.v[k].key # leg.key
                          \/ /\ leg.leg = "Index" /\ j.type = "Array"
                             /\ leg.i # PATH_EXPR_ARRAY_INDEX_ASTERISK
                             /\ ~(0 <= leg.i /\ leg.i < Len(j.v))
                          \/ /\ leg.leg = "Index" /\ j.type # "Array"
                             /\ leg.i # PATH_EXPR_ARRAY_INDEX_ASTERISK
                             /\ leg.i # 0
                  IN  mismatch => elem_list = <<>> /\ extracted = None)

C7_Witness ==
    /\ Extracted1 /\ Len(Legs1) >= 2
    /\ Head(Legs1).leg = "Index" /\ Head(Legs1).i < PATH_EXPR_ARRAY_INDEX_ASTERISK
    /\ j.type = "Array" /\ Len(j.v) >= 2
    /\ extracted = None

\* C8 as stated: with exactly one path expression whose legs contain an
\* asterisk, elem_list never has length exactly 1.
C8_AsteriskNeverSingle ==
    (Extracted1 /\ ContainsAsterisk(Legs1)) => Len(elem_list) # 1

\* C10: a leg sequence with no wildcard Index, no wildcard Key and no
\* DoubleAsterisk yields at most one value, a node of the document; extract
\* with one such expression returns None or that node itself, never an array
\* made by autowrapping.
C10_NoAsteriskAtMostOne ==
    pc = "extracted" =>
        /\ \A k \in 1..Len(path_expr_list) :
              ~ContainsAsterisk(path_expr_list[k]) =>
                  LET found == extract_json(j, path_expr_list[k])
                  IN  /\ Len(found) <= 1
                      /\ \A n \in 1..Len(found) :
                            \E d \in 1..Len(PreOrder(j)) : PreOrder(j)[d] = found[n]
        /\ (Len(path_expr_list) = 1 /\ ~ContainsAsterisk(Legs1)) =>
              /\ Len(elem_list) <= 1
              /\ extracted = (IF elem_list = <<>> THEN None ELSE Some(elem_list[1]))

C10_Witness ==
    /\ Extracted1 /\ Len(Legs1) >= 2 /\ ~ContainsAsterisk(Legs1)
    /\ j.type = "Array"
    /\ extracted # None /\ extracted # Some(j)
    /\ extracted.value.type = "Array"

RECURSIVE JsonDepth(_)
\* nesting depth of a document: 1 for a scalar or an empty array or object,
\* one more than its deepest child otherwise
JsonDepth(node) ==
    LET depths == {JsonDepth(Children(node)[k]) : k \in 1..Len(Children(node))}
    IN  IF depths = {} THEN 1 ELSE 1 + CHOOSE d \in depths : \A e \in depths : e <= d

\* C9 as stated: the depth of nested extract_json calls never exceeds the
\* nesting depth of the document, whatever the number of legs (the outermost
\* call is not counted).
C9_DepthWithinDocument == Len(stack) - 1 <= JsonDepth(j)

\* C9 amended: extract_json terminates, and the depth of nested extract_json
\* calls never exceeds the nesting depth of the document plus the number of
\* legs (every nested call has consumed a leg or descended to a child).
C9_TerminatesWithinDepthPlusLegs ==
    /\ [](pc = "extract_json" =>
            /\ Len(stack) <= JsonDepth(j) + Len(path_expr_list[1])
            /\ \A k \in 1..Len(stack) :
                  k <= (JsonDepth(j) - JsonDepth(stack[k].j))
                         + (Len(path_expr_list[1]) - Len(stack[k].path_legs)) + 1)
    /\ <>(pc = "returned")

C9_Witness ==
    /\ pc = "extract_json"
    /\ JsonDepth(j) >= 2
    /\ Len(path_expr_list[1]) >= 2
    /\ Len(stack) = JsonDepth(j) + Len(path_expr_list[1])

----------------------------------------------------------------------------
(* Properties of unquote *)

IsIncompleteEscape(result) == ~result.ok /\ result.err = "Incomplete escaped sequence"

IsInvalidUnicode(result) ==
    /\ ~result.ok
    /\ result.err \in {"Invalid unicode, byte len too short", "Utf8Error",
                       "Invalid unicode, char len too short", "ParseIntError",
                       "invalid char from"}

\* the scan stands at a backslash followed by 'u'
AtUnicodeEscape ==
    pc = "scan" /\ Len(chars) >= 2 /\ chars[1] = Backslash /\ chars[2] = LetterU

AfterU == SubSeq(chars, 3, Len(chars))

FourHex(str) == 4096 * HexDigit(str[1]) + 256 * HexDigit(str[2])
                  + 16 * HexDigit(str[3]) + HexDigit(str[4])

\* fewer than 4 characters, a character that is no hex digit among the next
\* 4, or a value that is no Unicode scalar value
MalformedUnicode(str) ==
    \/ Len(str) < 4
    \/ \E k \in 1..4 : ~IsHexDigit(str[k])
    \/ (55296 <= FourHex(str) /\ FourHex(str) <= 57343)

\* C3 as stated: at a backslash followed by 'u' the call fails with
\* InvalidUnicode if fewer than 4 characters remain after the 'u', or one of
\* the next 4 is no hexadecimal digit, or the value is no Unicode scalar
\* value; otherwise it emits the character with that code point and resumes
\* at the fifth character after the 'u'.
C3_UnicodeEscapeStrict ==
    [][AtUnicodeEscape =>
          IF MalformedUnicode(AfterU)
          THEN pc' = "unquoted" /\ IsInvalidUnicode(unquoted')
          ELSE /\ pc' = "scan"
               /\ ret' = Append(ret, FourHex(AfterU))
               /\ chars' = SubSeq(AfterU, 5, Len(AfterU))]_vars

\* the character the escape letter c (not 'u') stands for
EscapeTable(c) ==
    IF c = 34 THEN 34           \* \" is "
    ELSE IF c = 98 THEN 8       \* \b is 0x08
    ELSE IF c = 102 THEN 12     \* \f is 0x0C
    ELSE IF c = 110 THEN 10     \* \n is 0x0A
    ELSE IF c = 114 THEN 13     \* \r is 0x0D
    ELSE IF c = 116 THEN 9      \* \t is 0x09
    ELSE c                      \* \\ is \, any other letter is itself

\* C4: unquote of a string fails with IncompleteEscape exactly when the scan
\* meets a backslash with no character after it, fails with InvalidUnicode
\* only at a malformed \u escape, and fails for nothing else; a failure
\* carries no output. Otherwise a character other than the backslash is
\* copied, a backslash before one of " b f n r t \ emits the quote, 0x08,
\* 0x0C, 0x0A, 0x0D, 0x09 or the backslash, and a backslash before any other
\* character but 'u' emits that character. A value that is no string never
\* fails.
C4_UnquoteFailuresAndEscapes ==
    [][/\ (pc = "unquote" /\ j.type # "String") =>
             pc' = "unquoted" /\ unquoted'.ok
       /\ pc = "scan" =>
             /\ (pc' = "unquoted" /\ unquoted'.ok) <=> chars = <<>>
             /\ chars = <<>> => unquoted' = Ok(ret)
             /\ (pc' = "unquoted" /\ IsIncompleteEscape(unquoted')) <=>
                   chars = <<Backslash>>
             /\ (pc' = "unquoted" /\ ~unquoted'.ok /\ chars # <<Backslash>>) =>
                   /\ IsInvalidUnicode(unquoted')
                   /\ DOMAIN unquoted' = {"ok", "err"}
                   /\ AtUnicodeEscape
                   /\ MalformedUnicode(AfterU)
             /\ (chars # <<>> /\ Head(chars) # Backslash) =>
                   /\ pc' = "scan"
                   /\ ret' = Append(ret, Head(chars))
                   /\ chars' = Tail(chars)
             /\ (Len(chars) >= 2 /\ Head(chars) = Backslash /\ chars[2] # LetterU) =>
                   /\ pc' = "scan"
                   /\ ret' = Append(ret, EscapeTable(chars[2]))
                   /\ chars' = SubSeq(chars, 3, Len(chars))]_vars

C4_Witness ==
    /\ pc = "unquoted"
    /\ j = JsonString(<<Backslash, LetterA, Backslash, LetterF>>)
    /\ unquoted = Ok(<<LetterA, CHAR_FORMFEED>>)

====
